---- MODULE Spec2Model ----
(***************************************************************************)
(* QuizWiz: the quiz session reducer (context/QuizContext), the high-score *)
(* ledger kept in localStorage, the question normalizer (services/quizApi) *)
(* and the pages that drive them (Home, Quiz with its Timer, Results,      *)
(* Navbar).                                                                *)
(*                                                                         *)
(* SpecSession drives the operations of QuizContextType directly, in any   *)
(* order: it is the session boundary the context exposes to its consumers. *)
(* SpecLedger calls saveHighScore again and again on one ledger.           *)
(* Spec drives them only through the handlers and effects of the pages.    *)
(***************************************************************************)
EXTENDS Integers, Sequences, FiniteSets, TLC

VARIABLES
    state,      \* QuizState held by useReducer in QuizProvider
    storage,    \* localStorage item 'quiz-high-scores'
    now,        \* clock read by new Date() in saveHighScore
    saves,      \* ledger writes performed since the last START_QUIZ / RESET_QUIZ
    crashed,    \* an exception escaped a render or an effect (no error boundary)
    route,      \* location.pathname of the BrowserRouter
    hist,       \* paths held by the browser's session history
    pending,    \* fetchQuizQuestions calls awaiting their response: the one of the
                \* session in the provider (current) and those of earlier ones (late)
    timerDeps,  \* dependencies the Timer effect last ran with
    resultsRan, \* the Results effect ran for the current state object
    timeUps,    \* onTimeUp calls of the mounted Timer since its countdown was last armed
    expired,    \* positions at which onTimeUp was called since the last START_QUIZ / RESET_QUIZ
    unattended, \* SpecUnattended: the user has stopped acting on the application
    call,       \* SpecApi: the call of services/quizApi under way, with its arguments
    returned    \* SpecApi: what that call returned, and the caller's array after it

vars == <<state, storage, now, saves, crashed, route, hist, pending,
          timerDeps, resultsRan, timeUps, expired, unattended, call, returned>>

----------------------------------------------------------------------------
(* Bounds *)

BatchSize == 2      \* questions per batch (amount=10 in the request)
FullTime == 1       \* seconds per question (30 in the reducer)
MaxWrites == 6      \* ledger writes explored by SpecLedger
MaxPageWrites == 2  \* ledger writes explored by Spec
MaxPending == 2     \* fetches in flight at once
MaxLen == 3         \* elements of the arrays SpecApi shuffles
MaxRecords == 2     \* raw records of the responses SpecApi normalizes

(* Program constants *)

TopScores == 5      \* highScores.slice(0, 5)

NULL == "<null>"            \* JavaScript null
UNDEFINED == "<undefined>"  \* JavaScript undefined (reading a missing element)

Difficulty == {"easy", "medium", "hard"}
DifficultyChoices == {"easy", "hard"}   \* the payloads startQuiz is called with
SelectedDifficulties == {"hard"}         \* Home: the difficulty button pressed
ErrorMessage == "Failed to load quiz questions. Please try again."

Min(a, b) == IF a < b THEN a ELSE b
Max(a, b) == IF a > b THEN a ELSE b

----------------------------------------------------------------------------
(* services/quizApi *)

\* What the textarea trick decodes; texts without entities are unchanged.
decodeHtmlEntities(text) ==
    CASE text = "1 &lt; 2" -> "1 < 2"
      [] text = "Q&amp;A"  -> "Q&A"
      [] OTHER             -> text

\* A faulty variant of Swap: shuffled[i] = shuffled[j], the other half lost
SwapOverwrite(a, i, j) == [k \in 1..Len(a) |-> IF k = i + 1 THEN a[j + 1] ELSE a[k]]

\* [a[i], a[j]] = [a[j], a[i]] on 0-based positions i, j
Swap(a, i, j) ==
    [k \in 1..Len(a) |-> IF k = i + 1 THEN a[j + 1]
                         ELSE IF k = j + 1 THEN a[i + 1] ELSE a[k]]

\* The loop of shuffleArray from position i down to 1; js[i] is the value
\* Math.floor(Math.random() * (i + 1)) takes at step i.
RECURSIVE ShuffleFrom(_, _, _)
ShuffleFrom(shuffled, i, js) ==
    IF i > 0 THEN ShuffleFrom(Swap(shuffled, i, js[i]), i - 1, js)
    ELSE shuffled

\* The values of Math.random(), in steps of 1 / (2 * MaxLen): r stands for
\* the number r / (2 * MaxLen) of [0, 1).
RandomValues == 0..(2 * MaxLen - 1)

\* Math.floor(Math.random() * (i + 1)) for the value r of Math.random()
DrawnIndex(r, i) == (r * (i + 1)) \div (2 * MaxLen)

\* The sequences of random draws of one shuffle of n elements.
RandomChoices(n) == [1..(n - 1) -> 0..(n - 1)]

\* A faulty variant of ValidChoices: Math.random() * array.length at every step
AnyChoices(n) == RandomChoices(n)

ValidChoices(n) == {js \in RandomChoices(n) : \A i \in 1..(n - 1) : js[i] <= i}

shuffleArray(array, js) == ShuffleFrom(array, Len(array) - 1, js)

\* A call of shuffleArray seen from its caller: the loop works on the copy
\* [...array], so the caller's array is as it was; value is what is returned.
ShuffleArrayEffect(array, js) == [array |-> array, value |-> shuffleArray(array, js)]

\* A faulty variant of NormalizeQuestion: the correct answer is left out of allOptions
NormalizeQuestionNoCorrect(apiQuestion, index, js) ==
    [id       |-> "question-" \o ToString(index),
     question |-> decodeHtmlEntities(apiQuestion.question),
     options  |-> shuffleArray([k \in 1..Len(apiQuestion.incorrect_answers) |->
                                  decodeHtmlEntities(apiQuestion.incorrect_answers[k])],
                               js),
     answer   |-> decodeHtmlEntities(apiQuestion.correct_answer)]

\* One raw record of the API to one QuizQuestion (the body of results.map);
\* category, difficulty and type are copied as they are and nothing reads them.
NormalizeQuestion(apiQuestion, index, js) ==
    LET decodedCorrectAnswer == decodeHtmlEntities(apiQuestion.correct_answer)
        decodedIncorrectAnswers ==
            [k \in 1..Len(apiQuestion.incorrect_answers) |->
                decodeHtmlEntities(apiQuestion.incorrect_answers[k])]
        allOptions == <<decodedCorrectAnswer>> \o decodedIncorrectAnswers
    IN  [id       |-> "question-" \o ToString(index),
         question |-> decodeHtmlEntities(apiQuestion.question),
         options  |-> shuffleArray(allOptions, js),
         answer   |-> decodedCorrectAnswer]

\* The raw batches the Question Source answers with (boolean questions).
RawBatch(b) ==
    [i \in 1..BatchSize |->
        [question          |-> IF b = 1 THEN "1 &lt; 2" ELSE "Q&amp;A",
         correct_answer    |-> IF (b + i) % 2 = 0 THEN "True" ELSE "False",
         incorrect_answers |-> <<IF (b + i) % 2 = 0 THEN "False" ELSE "True">>]]

RawBatches == {RawBatch(1), RawBatch(2)}

\* The success path of fetchQuizQuestions: results.map with one shuffle per
\* question; rnd[i] is the sequence of draws of question i.
fetchQuizQuestions(results, rnd) ==
    [i \in 1..Len(results) |-> NormalizeQuestion(results[i], i - 1, rnd[i])]

\* The draws the sessions are run with: Math.random() returning a value
\* below 1 / 2 at every step, for every question of a batch.
ExploredDraws == {[i \in 1..BatchSize |-> js] : js \in {c \in ValidChoices(2) : c[1] = 0}}

\* What the Question Source answers a request with: the fetch rejects
\* ("network"), or resolves to a response with its ok flag, the response_code
\* of its body and the results of its body.
Responses ==
    {[kind |-> "network", ok |-> FALSE, response_code |-> 0, results |-> <<>>],
     [kind |-> "http", ok |-> FALSE, response_code |-> 0, results |-> <<>>],
     [kind |-> "http", ok |-> TRUE, response_code |-> 1, results |-> <<>>],
     [kind |-> "http", ok |-> TRUE, response_code |-> 1,
      results |-> SubSeq(RawBatch(1), 1, BatchSize - 1)]}
    \cup {[kind |-> "http", ok |-> TRUE, response_code |-> 0, results |-> results] :
              results \in RawBatches}

\* A faulty variant of FetchOutcome: data.response_code is not tested
FetchOutcomeAnyCode(response, rnd) ==
    IF response.kind = "network" \/ ~response.ok
    THEN [threw |-> TRUE, value |-> <<>>]
    ELSE [threw |-> FALSE,
          value |-> fetchQuizQuestions(response.results,
                                       SubSeq(rnd, 1, Len(response.results)))]

\* fetchQuizQuestions as a whole: whether the promise rejects, and the list
\* it resolves to otherwise.
FetchOutcome(response, rnd) ==
    IF response.kind = "network" THEN [threw |-> TRUE, value |-> <<>>]
    ELSE IF ~response.ok THEN [threw |-> TRUE, value |-> <<>>]
    ELSE IF response.response_code # 0 THEN [threw |-> TRUE, value |-> <<>>]
    ELSE [threw |-> FALSE,
          value |-> fetchQuizQuestions(response.results,
                                       SubSeq(rnd, 1, Len(response.results)))]

\* The lists a successful fetch resolves to.
QuestionLists ==
    {fetchQuizQuestions(results, rnd) :
        results \in RawBatches, rnd \in ExploredDraws}

----------------------------------------------------------------------------
(* context/QuizContext: the reducer *)

initialState ==
    [questions            |-> <<>>,
     currentQuestionIndex |-> 0,
     userAnswers          |-> <<>>,
     score                |-> 0,
     isCompleted          |-> FALSE,
     difficulty           |-> "easy",
     timeLeft             |-> FullTime,
     isLoading            |-> FALSE,
     error                |-> NULL]

\* A faulty variant of START_QUIZ: spreads state instead of initialState
START_QUIZ_KeepsState(s, payload) ==
    [s EXCEPT !.difficulty = payload, !.isLoading = TRUE]

START_QUIZ(s, payload) ==
    [initialState EXCEPT !.difficulty = payload, !.isLoading = TRUE]

\* A faulty variant of SET_QUESTIONS: new Array() without the length
SET_QUESTIONS_NoSlots(s, payload) ==
    [s EXCEPT !.questions   = payload,
              !.userAnswers = <<>>,
              !.isLoading   = FALSE,
              !.error       = NULL]

SET_QUESTIONS(s, payload) ==
    [s EXCEPT !.questions   = payload,
              !.userAnswers = [i \in 1..Len(payload) |-> NULL],
              !.isLoading   = FALSE,
              !.error       = NULL]

\* A faulty variant of SetElement: newAnswers.push(payload)
SetElementPush(array, index, value) == Append(array, value)

\* newAnswers[index] = payload on a copy of the array. A negative index sets
\* a property that is no element (the next copy drops it); an index past the
\* end grows the array, the skipped elements reading as undefined.
SetElement(array, index, value) ==
    IF index < 0 THEN array
    ELSE [k \in 1..Max(Len(array), index + 1) |->
            IF k = index + 1 THEN value
            ELSE IF k <= Len(array) THEN array[k] ELSE UNDEFINED]

\* A faulty variant of SELECT_ANSWER: the position moves on with the selection
SELECT_ANSWER_Advances(s, payload) ==
    [s EXCEPT !.userAnswers = SetElement(s.userAnswers, s.currentQuestionIndex, payload),
              !.currentQuestionIndex = Min(s.currentQuestionIndex + 1, Len(s.questions) - 1)]

SELECT_ANSWER(s, payload) ==
    [s EXCEPT !.userAnswers = SetElement(s.userAnswers, s.currentQuestionIndex, payload)]

\* A faulty variant of NEXT_QUESTION: the slot of the question moved to is cleared
NEXT_QUESTION_ClearsSlot(s) ==
    LET next == Min(s.currentQuestionIndex + 1, Len(s.questions) - 1)
    IN  [s EXCEPT !.currentQuestionIndex = next,
                  !.userAnswers = SetElement(s.userAnswers, next, NULL),
                  !.timeLeft = FullTime]

NEXT_QUESTION(s) ==
    [s EXCEPT !.currentQuestionIndex =
                  Min(s.currentQuestionIndex + 1, Len(s.questions) - 1),
              !.timeLeft = FullTime]

\* A faulty variant of PREVIOUS_QUESTION: the countdown goes on
PREVIOUS_QUESTION_KeepsTime(s) ==
    [s EXCEPT !.currentQuestionIndex = Max(s.currentQuestionIndex - 1, 0)]

PREVIOUS_QUESTION(s) ==
    [s EXCEPT !.currentQuestionIndex = Max(s.currentQuestionIndex - 1, 0),
              !.timeLeft = FullTime]

\* state.questions[index]?.answer
AnswerAt(questions, index) ==
    IF index + 1 \in 1..Len(questions) THEN questions[index + 1].answer ELSE UNDEFINED

\* A faulty variant of ReduceScore: every answered slot counts
ReduceScoreAnswered(userAnswers, questions, index, acc) ==
    acc + Cardinality({i \in (index + 1)..Len(userAnswers) : userAnswers[i] # NULL})

\* userAnswers.reduce((acc, answer, index) => ..., 0), left to right
RECURSIVE ReduceScore(_, _, _, _)
ReduceScore(userAnswers, questions, index, acc) ==
    IF index >= Len(userAnswers) THEN acc
    ELSE ReduceScore(userAnswers, questions, index + 1,
                     IF userAnswers[index + 1] = AnswerAt(questions, index)
                     THEN acc + 1 ELSE acc)

FINISH_QUIZ(s) ==
    [s EXCEPT !.score = ReduceScore(s.userAnswers, s.questions, 0, 0),
              !.isCompleted = TRUE]

\* A faulty variant of RESET_QUIZ: the score of the finished session is kept
RESET_QUIZ_KeepsScore(s) == [initialState EXCEPT !.score = s.score]

RESET_QUIZ(s) == initialState

SET_LOADING(s, payload) == [s EXCEPT !.isLoading = payload]

SET_ERROR(s, payload) == [s EXCEPT !.error = payload, !.isLoading = FALSE]

\* A faulty variant of DECREMENT_TIMER: no Math.max
DECREMENT_TIMER_NoFloor(s) == [s EXCEPT !.timeLeft = s.timeLeft - 1]

DECREMENT_TIMER(s) == [s EXCEPT !.timeLeft = Max(s.timeLeft - 1, 0)]

RESET_TIMER(s) == [s EXCEPT !.timeLeft = FullTime]

quizReducer(s, action) ==
    CASE action.type = "START_QUIZ"        -> START_QUIZ(s, action.payload)
      [] action.type = "SET_QUESTIONS"     -> SET_QUESTIONS(s, action.payload)
      [] action.type = "SELECT_ANSWER"     -> SELECT_ANSWER(s, action.payload)
      [] action.type = "NEXT_QUESTION"     -> NEXT_QUESTION(s)
      [] action.type = "PREVIOUS_QUESTION" -> PREVIOUS_QUESTION(s)
      [] action.type = "FINISH_QUIZ"       -> FINISH_QUIZ(s)
      [] action.type = "RESET_QUIZ"        -> RESET_QUIZ(s)
      [] action.type = "SET_LOADING"       -> SET_LOADING(s, action.payload)
      [] action.type = "SET_ERROR"         -> SET_ERROR(s, action.payload)
      [] action.type = "DECREMENT_TIMER"   -> DECREMENT_TIMER(s)
      [] action.type = "RESET_TIMER"       -> RESET_TIMER(s)
      [] OTHER                             -> s

----------------------------------------------------------------------------
(* context/QuizContext: the high-score ledger *)

NoItem == [kind |-> "missing", value |-> <<>>]      \* getItem returns null
Corrupt == [kind |-> "corrupt", value |-> <<>>]     \* a payload JSON.parse rejects
Stored(list) == [kind |-> "array", value |-> list]  \* JSON.stringify(list)

\* saved ? JSON.parse(saved) : []
getHighScores(saved) ==
    CASE saved.kind = "missing" -> [threw |-> FALSE, value |-> <<>>]
      [] saved.kind = "corrupt" -> [threw |-> TRUE,  value |-> <<>>]
      [] OTHER                  -> [threw |-> FALSE, value |-> saved.value]

\* A faulty variant of InsertByScore: the entry goes before those of its score
RECURSIVE InsertByScoreBeforeTies(_, _)
InsertByScoreBeforeTies(sorted, entry) ==
    IF sorted = <<>> THEN <<entry>>
    ELSE IF Head(sorted).score > entry.score
         THEN <<Head(sorted)>> \o InsertByScoreBeforeTies(Tail(sorted), entry)
         ELSE <<entry>> \o sorted

\* One entry into an already ordered list, behind every entry the comparator
\* (b.score - a.score) does not put after it: the sort is stable.
RECURSIVE InsertByScore(_, _)
InsertByScore(sorted, entry) ==
    IF sorted = <<>> THEN <<entry>>
    ELSE IF Head(sorted).score >= entry.score
         THEN <<Head(sorted)>> \o InsertByScore(Tail(sorted), entry)
         ELSE <<entry>> \o sorted

\* A faulty variant of SortByScore: the list is stored in the order of the writes
KeepOrder(list) == list

\* highScores.sort((a, b) => b.score - a.score)
RECURSIVE SortByScore(_)
SortByScore(list) ==
    IF list = <<>> THEN <<>>
    ELSE InsertByScore(SortByScore(SubSeq(list, 1, Len(list) - 1)), list[Len(list)])

\* highScores.slice(0, 5)
TopSlice(list) == SubSeq(list, 1, Min(Len(list), TopScores))

\* A faulty variant of NewScore: the difficulty of initialState is recorded
NewScoreDefaultDifficulty(s, date) ==
    [score          |-> s.score,
     totalQuestions |-> Len(s.questions),
     difficulty     |-> initialState.difficulty,
     date           |-> date]

NewScore(s, date) ==
    [score          |-> s.score,
     totalQuestions |-> Len(s.questions),
     difficulty     |-> s.difficulty,
     date           |-> date]

\* A faulty variant of saveHighScore: no test of state.isCompleted
saveHighScoreUnguarded(s, saved, date) ==
    LET highScores == getHighScores(saved)
    IN  IF highScores.threw
        THEN [storage |-> saved, wrote |-> FALSE, threw |-> TRUE]
        ELSE [storage |-> Stored(TopSlice(SortByScore(
                              Append(highScores.value, NewScore(s, date))))),
              wrote |-> TRUE, threw |-> FALSE]

\* saveHighScore with the state its closure holds: the storage it leaves,
\* whether it wrote, whether it threw.
saveHighScore(s, saved, date) ==
    IF s.isCompleted
    THEN LET highScores == getHighScores(saved)
         IN  IF highScores.threw
             THEN [storage |-> saved, wrote |-> FALSE, threw |-> TRUE]
             ELSE [storage |-> Stored(TopSlice(SortByScore(
                                   Append(highScores.value, NewScore(s, date))))),
                   wrote |-> TRUE, threw |-> FALSE]
    ELSE [storage |-> saved, wrote |-> FALSE, threw |-> FALSE]

----------------------------------------------------------------------------
(* Initial state: the provider holds initialState, Home is rendered and its  *)
(* render has read the ledger.                                             *)

\* The dependencies of a Timer that is not rendered.
Unmounted == [mounted |-> FALSE, timeLeft |-> 0, onTimeUp |-> FALSE]

\* No call of services/quizApi is examined.
NoCall == [op |-> "none"]
NotReturned == [done |-> FALSE]

Init ==
    /\ state = initialState
    /\ storage \in {NoItem, Corrupt}
    /\ now = 0
    /\ saves = 0
    /\ crashed = getHighScores(storage).threw
    /\ route = "/"
    /\ hist = {"/"}
    /\ pending = [current |-> 0, late |-> 0]
    /\ timerDeps = Unmounted
    /\ resultsRan = FALSE
    /\ timeUps = 0
    /\ expired = {}
    /\ unattended = FALSE
    /\ call = NoCall
    /\ returned = NotReturned

----------------------------------------------------------------------------
(* SpecSession: the operations of QuizContextType, each one dispatch *)

pageVars == <<route, hist, pending, timerDeps, resultsRan, timeUps, expired, unattended>>
apiVars == <<call, returned>>

\* dispatch(action) with nothing rendered around it
Dispatch(action) ==
    /\ ~crashed
    /\ state' = quizReducer(state, action)
    /\ saves' = IF action.type \in {"START_QUIZ", "RESET_QUIZ"} THEN 0 ELSE saves
    /\ UNCHANGED <<storage, now, crashed, pageVars, apiVars>>

startQuiz == \E d \in DifficultyChoices : Dispatch([type |-> "START_QUIZ", payload |-> d])
setQuestions == \E qs \in QuestionLists : Dispatch([type |-> "SET_QUESTIONS", payload |-> qs])
selectAnswer == \E a \in {"True", "False"} : Dispatch([type |-> "SELECT_ANSWER", payload |-> a])
nextQuestion == Dispatch([type |-> "NEXT_QUESTION"])
previousQuestion == Dispatch([type |-> "PREVIOUS_QUESTION"])
finishQuiz == Dispatch([type |-> "FINISH_QUIZ"])
resetQuiz == Dispatch([type |-> "RESET_QUIZ"])
setLoading == \E b \in BOOLEAN : Dispatch([type |-> "SET_LOADING", payload |-> b])
setError == \E e \in {NULL, ErrorMessage} : Dispatch([type |-> "SET_ERROR", payload |-> e])
decrementTimer == Dispatch([type |-> "DECREMENT_TIMER"])
resetTimer == Dispatch([type |-> "RESET_TIMER"])

NextSession ==
    \/ startQuiz
    \/ setQuestions
    \/ selectAnswer
    \/ nextQuestion
    \/ previousQuestion
    \/ finishQuiz
    \/ resetQuiz
    \/ setLoading
    \/ setError
    \/ decrementTimer
    \/ resetTimer

SpecSession == Init /\ [][NextSession]_vars

----------------------------------------------------------------------------
(* SpecLedger: saveHighScore called again and again, each call with the     *)
(* session its closure holds drawn from the sessions the reducer produces. *)

\* The session after the user went through the questions of qs in order,
\* picking picks[i] at question i (NULL: left unanswered), from position index on.
RECURSIVE Answered(_, _, _)
Answered(s, picks, index) ==
    IF index >= Len(picks) THEN s
    ELSE LET picked == IF picks[index + 1] = NULL THEN s
                       ELSE SELECT_ANSWER(s, picks[index + 1])
         IN  Answered(NEXT_QUESTION(picked), picks, index + 1)

Loaded(d, qs) == SET_QUESTIONS(START_QUIZ(initialState, d), qs)

Picks == [1..BatchSize -> {NULL, "True", "False"}]

SessionSnapshots ==
    {initialState}
    \cup {Loaded(d, qs) : d \in SelectedDifficulties, qs \in QuestionLists}
    \cup {FINISH_QUIZ(Answered(Loaded(d, qs), picks, 0)) :
            d \in SelectedDifficulties, qs \in QuestionLists, picks \in Picks}

SaveHighScoreCall ==
    /\ ~crashed
    /\ now < MaxWrites
    /\ \E s \in SessionSnapshots :
         LET r == saveHighScore(s, storage, now)
         IN  /\ storage' = r.storage
             /\ crashed' = r.threw
             /\ now' = IF r.wrote THEN now + 1 ELSE now
             /\ saves' = IF r.wrote THEN saves + 1 ELSE saves
    /\ UNCHANGED <<state, pageVars, apiVars>>

NextLedger == SaveHighScoreCall

SpecLedger == Init /\ [][NextLedger]_vars

----------------------------------------------------------------------------
(* SpecApi: one call of shuffleArray or of fetchQuizQuestions. The array and *)
(* the draws of a shuffle are drawn in the initial state; the response of a  *)
(* fetch is drawn there and, when it is a success, grows record by record.   *)

Elements == {"a", "b", "c", "d"}
Arrays == UNION {[1..n -> Elements] : n \in 0..MaxLen}

ShuffleCalls ==
    UNION {{[op |-> "shuffleArray", array |-> array, draws |-> js] :
               js \in ValidChoices(Len(array))} : array \in Arrays}

\* Raw records: a boolean question, a multiple-choice question with entities,
\* and one whose option texts differ as sent and coincide once decoded.
SampleQuestions ==
    {[question |-> "Q&amp;A", correct_answer |-> "True",
      incorrect_answers |-> <<"False">>],
     [question |-> "Q&amp;A", correct_answer |-> "1 &lt; 2",
      incorrect_answers |-> <<"A", "B", "C">>],
     [question |-> "1 &lt; 2", correct_answer |-> "1 &lt; 2",
      incorrect_answers |-> <<"1 < 2", "A", "B">>]}

\* The fetches whose response fails, and the one whose successful response
\* holds no record yet.
FetchCalls ==
    {[op |-> "fetchQuizQuestions", response |-> response, draws |-> <<>>] :
        response \in {r \in Responses : r.kind = "network" \/ ~r.ok
                                          \/ r.response_code # 0}}
    \cup {[op |-> "fetchQuizQuestions",
           response |-> [kind |-> "http", ok |-> TRUE, response_code |-> 0,
                         results |-> <<>>],
           draws |-> <<>>]}

InitApi ==
    /\ state = initialState
    /\ storage = NoItem
    /\ now = 0
    /\ saves = 0
    /\ crashed = FALSE
    /\ route = "/"
    /\ hist = {"/"}
    /\ pending = [current |-> 0, late |-> 0]
    /\ timerDeps = Unmounted
    /\ resultsRan = FALSE
    /\ timeUps = 0
    /\ expired = {}
    /\ unattended = FALSE
    /\ call \in ShuffleCalls \cup FetchCalls
    /\ returned = NotReturned

\* The Question Source puts one more record into its successful response;
\* js are the draws the shuffle of its options will take.
ResponseGrows ==
    /\ call.op = "fetchQuizQuestions"
    /\ ~returned.done
    /\ call.response.kind = "http" /\ call.response.ok
    /\ call.response.response_code = 0
    /\ Len(call.response.results) < MaxRecords
    /\ \E raw \in SampleQuestions :
          \E js \in ValidChoices(Len(raw.incorrect_answers) + 1) :
             call' = [call EXCEPT !.response.results = Append(@, raw),
                                  !.draws = Append(@, js)]
    /\ UNCHANGED <<state, storage, now, saves, crashed, pageVars, returned>>

ShuffleArrayReturns ==
    /\ call.op = "shuffleArray"
    /\ ~returned.done
    /\ LET effect == ShuffleArrayEffect(call.array, call.draws)
       IN  returned' = [done |-> TRUE, array |-> effect.array, value |-> effect.value]
    /\ UNCHANGED <<state, storage, now, saves, crashed, pageVars, call>>

FetchQuizQuestionsReturns ==
    /\ call.op = "fetchQuizQuestions"
    /\ ~returned.done
    /\ LET outcome == FetchOutcome(call.response, call.draws)
       IN  returned' = [done |-> TRUE, threw |-> outcome.threw, value |-> outcome.value]
    /\ UNCHANGED <<state, storage, now, saves, crashed, pageVars, call>>

NextApi ==
    \/ ResponseGrows
    \/ ShuffleArrayReturns
    \/ FetchQuizQuestionsReturns

SpecApi == InitApi /\ [][NextApi]_vars

----------------------------------------------------------------------------
(* Spec: the pages. Every handler and every flush of effects is one step;  *)
(* React runs the effects of a render before it handles the next event.    *)

\* const currentQuestion = questions[currentQuestionIndex]; Quiz renders the
\* question, the Timer and the navigation only when it is defined.
QuizShown(s) == s.currentQuestionIndex + 1 \in 1..Len(s.questions)

\* A faulty variant of isLastQuestion: compared with questions.length
isLastQuestionPastEnd(s) == s.currentQuestionIndex = Len(s.questions)

isLastQuestion(s) == s.currentQuestionIndex = Len(s.questions) - 1

\* !!selectedAnswer
hasSelectedAnswer(s) ==
    /\ s.currentQuestionIndex + 1 \in 1..Len(s.userAnswers)
    /\ s.userAnswers[s.currentQuestionIndex + 1] \notin {NULL, UNDEFINED, ""}

\* QuestionNavigation: const isAnswered = userAnswers[index] !== undefined
isAnswered(userAnswers, index) == userAnswers[index + 1] # UNDEFINED

TimerMounted(s, r) == r = "/quiz" /\ QuizShown(s)

\* A faulty variant of TimerDepsOf: handleTimeUp also depends on isCompleted
TimerDepsWithCompleted(s) ==
    [mounted |-> TRUE, timeLeft |-> s.timeLeft,
     onTimeUp |-> (isLastQuestion(s) /\ ~s.isCompleted)]

\* [timeLeft, decrementTimer, onTimeUp]: decrementTimer never changes, and
\* handleTimeUp is a new function exactly when isLastQuestion changes.
TimerDepsOf(s) == [mounted |-> TRUE, timeLeft |-> s.timeLeft, onTimeUp |-> isLastQuestion(s)]

\* The Timer effect runs after a render when it was just mounted or one of
\* its dependencies changed.
TimerEffectRuns(s, r, deps) == TimerMounted(s, r) /\ deps # TimerDepsOf(s)

\* Quiz: if (!questions.length && !state.isLoading) navigate('/')
RedirectsHome(s, r) == r = "/quiz" /\ Len(s.questions) = 0 /\ ~s.isLoading
\* Quiz: if (isCompleted) navigate('/results')
RedirectsToResults(s, r) == r = "/quiz" /\ s.isCompleted

EffectsPending ==
    \/ TimerEffectRuns(state, route, timerDeps)
    \/ RedirectsHome(state, route)
    \/ RedirectsToResults(state, route)
    \/ (route = "/results" /\ ~resultsRan)

Idle == ~crashed /\ ~EffectsPending

\* The render that follows a handler: s2 is the state it left, r2 the path,
\* newObject whether the reducer returned a new state object, pushed the
\* paths its navigate calls pushed.
Render(s2, r2, newObject, pushed) ==
    LET stays == TimerMounted(state, route) /\ TimerMounted(s2, r2)
    IN  /\ state' = s2
        /\ route' = r2
        /\ hist' = hist \cup pushed
        /\ timerDeps' = IF stays THEN timerDeps ELSE Unmounted
        /\ timeUps' = IF stays /\ s2.currentQuestionIndex = state.currentQuestionIndex
                      THEN timeUps ELSE 0
        /\ expired' = IF Len(s2.questions) = 0 THEN {} ELSE expired
        /\ resultsRan' = (resultsRan /\ r2 = "/results" /\ route = "/results" /\ ~newObject)
        /\ crashed' = (r2 = "/" /\ getHighScores(storage).threw)
        /\ UNCHANGED <<unattended, apiVars>>

\* The requests a response can arrive for, and pending once it has.
InFlight == {k \in {"current", "late"} : pending[k] > 0}
Settled(request) == [pending EXCEPT ![request] = @ - 1]

\* Home.handleStartQuiz up to its await; the button stays enabled while loading
HandleStartQuiz ==
    /\ Idle
    /\ route = "/"
    /\ pending.current + pending.late < MaxPending
    /\ \E selectedDifficulty \in SelectedDifficulties :
          Render(START_QUIZ(SET_LOADING(state, TRUE), selectedDifficulty), "/", TRUE, {})
    /\ pending' = [current |-> 1, late |-> pending.late + pending.current]
    /\ saves' = 0
    /\ UNCHANGED <<storage, now>>

\* Home.handleStartQuiz after its await, the fetch having resolved
QuestionsLoaded ==
    /\ Idle
    /\ \E request \in InFlight, response \in Responses, rnd \in ExploredDraws :
          LET questions == FetchOutcome(response, rnd)
          IN  /\ ~questions.threw
              /\ Render(SET_QUESTIONS(state, questions.value), "/quiz", TRUE, {"/quiz"})
              /\ pending' = Settled(request)
    /\ UNCHANGED <<storage, now, saves>>

\* Home.handleStartQuiz in its catch, the fetch having thrown
QuestionsFailed ==
    /\ Idle
    /\ \E request \in InFlight, response \in Responses, rnd \in ExploredDraws :
          /\ FetchOutcome(response, rnd).threw
          /\ Render(SET_ERROR(state, ErrorMessage), route, TRUE, {})
          /\ pending' = Settled(request)
    /\ UNCHANGED <<storage, now, saves>>

\* Quiz.handleAnswerSelect from a click on one of the options
HandleAnswerSelect ==
    /\ Idle
    /\ TimerMounted(state, route)
    /\ \E k \in 1..Len(state.questions[state.currentQuestionIndex + 1].options) :
          Render(SELECT_ANSWER(state,
                     state.questions[state.currentQuestionIndex + 1].options[k]),
                 route, TRUE, {})
    /\ UNCHANGED <<storage, now, saves, pending>>

\* Quiz.handleNext; the button is disabled without a selected answer
HandleNext ==
    /\ Idle
    /\ TimerMounted(state, route)
    /\ hasSelectedAnswer(state)
    /\ Render(IF isLastQuestion(state) THEN FINISH_QUIZ(state) ELSE NEXT_QUESTION(state),
              route, TRUE, {})
    /\ UNCHANGED <<storage, now, saves, pending>>

\* Quiz.handlePrevious; the button is disabled on the first question
HandlePrevious ==
    /\ Idle
    /\ TimerMounted(state, route)
    /\ state.currentQuestionIndex # 0
    /\ Render(PREVIOUS_QUESTION(state), route, TRUE, {})
    /\ UNCHANGED <<storage, now, saves, pending>>

\* The setTimeout callback of the Timer; the timeout is pending exactly when
\* the Timer is mounted and its effect last ran with timeLeft > 0.
TimerTick ==
    /\ Idle
    /\ TimerMounted(state, route)
    /\ state.timeLeft > 0
    /\ Render(DECREMENT_TIMER(state), route, TRUE, {})
    /\ UNCHANGED <<storage, now, saves, pending>>

\* Results.handleRestart (handleGoHome differs by its toast only)
HandleRestart ==
    /\ Idle
    /\ route = "/results"
    /\ Len(state.questions) > 0
    /\ Render(RESET_QUIZ(state), "/", TRUE, {"/"})
    /\ saves' = 0
    /\ pending' = [current |-> 0, late |-> pending.late + pending.current]
    /\ UNCHANGED <<storage, now>>

\* Navbar: the logo, the Home and Start Quiz items, Exit Quiz: navigate("/")
NavigateHome ==
    /\ Idle
    /\ route # "/"
    /\ Render(state, "/", FALSE, {"/"})
    /\ UNCHANGED <<storage, now, saves, pending>>

\* Navbar.handleMenuAction "view-results": navigate("/results") and then
\* navigate("/") in the same handler; the entry "/results" stays in the history.
ViewResults ==
    /\ Idle
    /\ route # "/quiz"
    /\ ~getHighScores(storage).threw
    /\ Len(getHighScores(storage).value) > 0 \/ state.isCompleted
    /\ "/results" \notin hist \/ route # "/"
    /\ Render(state, "/", FALSE, {"/results", "/"})
    /\ UNCHANGED <<storage, now, saves, pending>>

\* The Back and Forward buttons of the browser
HistoryGo ==
    /\ Idle
    /\ \E path \in hist \ {route} : Render(state, path, FALSE, {})
    /\ UNCHANGED <<storage, now, saves, pending>>

\* One flush of the effects of the last render, on the state it rendered:
\* Timer, then the two effects of Quiz; or the effect of Results.
RunEffects ==
    /\ ~crashed
    /\ EffectsPending
    /\ LET timeUp == TimerEffectRuns(state, route, timerDeps) /\ ~(state.timeLeft > 0)
           \* Quiz.handleTimeUp
           s2 == IF timeUp
                 THEN IF isLastQuestion(state) THEN FINISH_QUIZ(state)
                      ELSE NEXT_QUESTION(state)
                 ELSE state
           noResults == route = "/results" /\ ~resultsRan /\ Len(state.questions) = 0
           saved == IF route = "/results" /\ ~resultsRan /\ ~noResults
                    THEN saveHighScore(state, storage, now)
                    ELSE [storage |-> storage, wrote |-> FALSE, threw |-> FALSE]
           r2 == IF RedirectsToResults(state, route) THEN "/results"
                 ELSE IF RedirectsHome(state, route) \/ noResults THEN "/"
                 ELSE route
           stays == TimerMounted(state, route) /\ TimerMounted(s2, r2)
       IN  /\ saved.wrote => now < MaxPageWrites
           /\ state' = s2
           /\ route' = r2
           /\ hist' = hist \cup {r2}
           /\ timerDeps' = IF stays THEN TimerDepsOf(state) ELSE Unmounted
           /\ timeUps' = IF timeUp THEN timeUps + 1
                         ELSE IF stays /\ ~TimerEffectRuns(state, route, timerDeps)
                              THEN timeUps ELSE 0
           /\ expired' = IF timeUp THEN expired \cup {state.currentQuestionIndex}
                         ELSE expired
           /\ resultsRan' = (route = "/results" /\ r2 = "/results")
           /\ storage' = saved.storage
           /\ now' = IF saved.wrote THEN now + 1 ELSE now
           /\ saves' = IF saved.wrote THEN saves + 1 ELSE saves
           /\ crashed' = (saved.threw \/ (r2 = "/" /\ getHighScores(saved.storage).threw))
    /\ UNCHANGED <<pending, unattended, apiVars>>

Next ==
    \/ HandleStartQuiz
    \/ QuestionsLoaded
    \/ QuestionsFailed
    \/ HandleAnswerSelect
    \/ HandleNext
    \/ HandlePrevious
    \/ TimerTick
    \/ HandleRestart
    \/ NavigateHome
    \/ ViewResults
    \/ HistoryGo
    \/ RunEffects

Spec == Init /\ [][Next]_vars

----------------------------------------------------------------------------
(* SpecUnattended: the pages, with a user who at some moment stops acting.  *)
(* From then on only the Timer, the effects and the responses of requests   *)
(* still in flight take steps. The timeout of the Timer fires when it is    *)
(* due and React flushes the effects of a render: weak fairness on both.    *)

\* The user acts as in Spec
Attended == ~unattended /\ Next

\* The user stops acting, between two events
UserLeaves ==
    /\ Idle
    /\ ~unattended
    /\ unattended' = TRUE
    /\ UNCHANGED <<state, storage, now, saves, crashed, route, hist, pending,
                   timerDeps, resultsRan, timeUps, expired, apiVars>>

\* What still happens without the user
Unattended ==
    /\ unattended
    /\ TimerTick \/ RunEffects \/ QuestionsLoaded \/ QuestionsFailed

NextUnattended ==
    \/ Attended
    \/ UserLeaves
    \/ Unattended

SpecUnattended ==
    /\ Init
    /\ [][NextUnattended]_vars
    /\ WF_vars(TimerTick)
    /\ WF_vars(RunEffects)

----------------------------------------------------------------------------
(* Properties of the session reducer (SpecSession) *)

\* The positions whose recorded answer is the question's correct answer.
CorrectPositions(s) ==
    {i \in 1..Len(s.userAnswers) :
        i <= Len(s.questions) /\ s.userAnswers[i] = s.questions[i].answer}

\* The positions holding null.
UnansweredPositions(s) == {i \in 1..Len(s.userAnswers) : s.userAnswers[i] = NULL}

\* C1: FinishQuiz on any session state sets isCompleted and sets score to the
\* number of positions i with userAnswers[i] = questions[i].answer; a null
\* slot is never among the positions counted.
C1_FinishQuizScores ==
    [][finishQuiz =>
          /\ state'.isCompleted
          /\ state'.score = Cardinality(CorrectPositions(state))
          /\ CorrectPositions(state) \cap UnansweredPositions(state) = {}
          /\ state'.score <= Len(state.userAnswers)
                               - Cardinality(UnansweredPositions(state))]_vars

\* A finished session with one correct answer and one slot left unanswered.
C1_Witness ==
    /\ state.isCompleted
    /\ state.score = 1
    /\ UnansweredPositions(state) # {}
    /\ Cardinality(CorrectPositions(state)) = 1

\* C2: in every reachable state, a completed session's score is the number of
\* positions whose recorded answer is the correct answer of the current
\* questions and userAnswers.
C2_CompletedScoreIsCurrent ==
    state.isCompleted => state.score = Cardinality(CorrectPositions(state))

\* C3: whenever a question list is loaded, the position lies within
\* 0 .. questions.length - 1, whatever the order of the operations.
C3_PositionInRange ==
    Len(state.questions) > 0 =>
        state.currentQuestionIndex \in 0..(Len(state.questions) - 1)

\* C4: whenever a question list is loaded, userAnswers has exactly one slot
\* per question.
C4_OneSlotPerQuestion ==
    Len(state.questions) > 0 => Len(state.userAnswers) = Len(state.questions)

\* A loaded session, finished on a later question with an answer recorded and
\* the countdown run down.
C4_Witness ==
    /\ Len(state.questions) > 0
    /\ state.isCompleted
    /\ state.currentQuestionIndex > 0
    /\ state.timeLeft < FullTime
    /\ \E i \in 1..Len(state.userAnswers) : state.userAnswers[i] \in {"True", "False"}

\* The state of a session that was just started with difficulty d.
JustStarted(d) ==
    [questions            |-> <<>>,
     currentQuestionIndex |-> 0,
     userAnswers          |-> <<>>,
     score                |-> 0,
     isCompleted          |-> FALSE,
     difficulty           |-> d,
     timeLeft             |-> FullTime,
     isLoading            |-> TRUE,
     error                |-> NULL]

\* The state of a session started with difficulty d whose questions are list.
JustLoaded(d, list) ==
    [questions            |-> list,
     currentQuestionIndex |-> 0,
     userAnswers          |-> [i \in 1..Len(list) |-> NULL],
     score                |-> 0,
     isCompleted          |-> FALSE,
     difficulty           |-> d,
     timeLeft             |-> FullTime,
     isLoading            |-> FALSE,
     error                |-> NULL]

\* C13: StartQuiz(d) followed by a successful QuestionsLoaded(list) yields
\* questions = list, one null slot per question, position 0, the full time,
\* isLoading = false, error = null, isCompleted = false and difficulty = d,
\* whatever the state before StartQuiz.
C13_StartThenLoad ==
    [][\A d \in DifficultyChoices :
          state' = quizReducer(state, [type |-> "START_QUIZ", payload |-> d]) =>
              \A list \in QuestionLists :
                  quizReducer(state', [type |-> "SET_QUESTIONS", payload |-> list])
                      = JustLoaded(d, list)]_vars

\* A session started with "hard" and loaded, nothing done in it yet.
C13_Witness == \E list \in QuestionLists : state = JustLoaded("hard", list)

\* C14: StartQuiz(d) in any state leaves every field at its default except
\* difficulty = d and isLoading = true; nothing of the prior session survives.
C14_StartResets ==
    [][\A d \in DifficultyChoices :
          (startQuiz /\ state'.difficulty = d) => state' = JustStarted(d)]_vars

\* A session just started with "hard", its questions not loaded yet.
C14_Witness == state = JustStarted("hard")

\* PreviousQuestion and then NextQuestion, from the session s.
BackAndForth(s) ==
    quizReducer(quizReducer(s, [type |-> "PREVIOUS_QUESTION"]),
                [type |-> "NEXT_QUESTION"])

\* C16: NextQuestion and PreviousQuestion change no slot of userAnswers, and
\* from a position greater than 0 PreviousQuestion followed by NextQuestion
\* comes back to that position with the recorded answers as they were.
C16_NavigationKeepsAnswers ==
    [][/\ (nextQuestion \/ previousQuestion) =>
              state'.userAnswers = state.userAnswers
       /\ state.currentQuestionIndex > 0 =>
              /\ BackAndForth(state).currentQuestionIndex = state.currentQuestionIndex
              /\ BackAndForth(state).userAnswers = state.userAnswers]_vars

\* A session on a later question with an answer recorded there and on the
\* question before it.
C16_Witness ==
    /\ state.currentQuestionIndex > 0
    /\ Len(state.userAnswers) > state.currentQuestionIndex
    /\ state.userAnswers[state.currentQuestionIndex + 1] \in {"True", "False"}
    /\ state.userAnswers[state.currentQuestionIndex] \in {"True", "False"}
    /\ ~state.isCompleted

\* C17: in a state with isCompleted = true, SelectAnswer leaves userAnswers
\* and score unchanged.
C17_AnswersFrozen ==
    [][(state.isCompleted /\ selectAnswer) =>
          /\ state'.userAnswers = state.userAnswers
          /\ state'.score = state.score]_vars

\* A session with its questions loaded and not completed.
InProgress(s) == Len(s.questions) > 0 /\ ~s.isCompleted

\* The session s with its position set to index and its countdown to timeLeft,
\* every other field as it is.
Moved(s, index, timeLeft) ==
    [questions            |-> s.questions,
     currentQuestionIndex |-> index,
     userAnswers          |-> s.userAnswers,
     score                |-> s.score,
     isCompleted          |-> s.isCompleted,
     difficulty           |-> s.difficulty,
     timeLeft             |-> timeLeft,
     isLoading            |-> s.isLoading,
     error                |-> s.error]

\* C23: in an in-progress session NextQuestion sets the position to
\* min(position + 1, questions.length - 1) and PreviousQuestion to
\* max(position - 1, 0); each sets timeLeft to the full time and leaves
\* questions, userAnswers, score, isCompleted, difficulty, isLoading and error
\* unchanged.
C23_NavigationMovesAndResetsTimer ==
    [][InProgress(state) =>
          LET position == state.currentQuestionIndex
              length == Len(state.questions)
          IN  /\ nextQuestion =>
                    state' = Moved(state,
                                   IF position + 1 < length - 1
                                   THEN position + 1 ELSE length - 1,
                                   FullTime)
              /\ previousQuestion =>
                    state' = Moved(state,
                                   IF position - 1 > 0 THEN position - 1 ELSE 0,
                                   FullTime)]_vars

\* An in-progress session back on the first question with the full time, the
\* question after it answered: it was moved forward and back.
C23_Witness ==
    /\ InProgress(state)
    /\ state.currentQuestionIndex = 0
    /\ state.timeLeft = FullTime
    /\ Len(state.userAnswers) = Len(state.questions)
    /\ state.userAnswers[1] = NULL
    /\ state.userAnswers[2] \in {"True", "False"}

\* SelectAnswer(text) on the session s.
Selected(s, text) == quizReducer(s, [type |-> "SELECT_ANSWER", payload |-> text])

\* The session s with userAnswers replaced, every other field as it is.
WithAnswers(s, answers) ==
    [questions            |-> s.questions,
     currentQuestionIndex |-> s.currentQuestionIndex,
     userAnswers          |-> answers,
     score                |-> s.score,
     isCompleted          |-> s.isCompleted,
     difficulty           |-> s.difficulty,
     timeLeft             |-> s.timeLeft,
     isLoading            |-> s.isLoading,
     error                |-> s.error]

\* C24: in an in-progress session SelectAnswer(text) puts text into the answer
\* slot at the current position and changes nothing else (the other slots, the
\* number of slots, the position, timeLeft, score, isCompleted and the other
\* fields); selecting the same text twice gives the state selecting it once
\* gives, and a later selection at the same position replaces the earlier one.
C24_SelectOverwritesOneSlot ==
    InProgress(state) =>
        \A text \in {"True", "False"} :
            LET after == Selected(state, text)
                position == state.currentQuestionIndex
            IN  /\ after = WithAnswers(state, after.userAnswers)
                /\ Len(after.userAnswers) = Len(state.userAnswers)
                /\ \A i \in 1..Len(state.userAnswers) :
                      after.userAnswers[i] =
                          IF i = position + 1 THEN text ELSE state.userAnswers[i]
                /\ Selected(after, text) = after
                /\ \A other \in {"True", "False"} :
                      Selected(after, other) = Selected(state, other)

\* An in-progress session on its second question, the countdown run down, the
\* two questions answered differently: the second selection left the first.
C24_Witness ==
    /\ InProgress(state)
    /\ state.currentQuestionIndex = 1
    /\ state.timeLeft = 0
    /\ state.userAnswers = <<"True", "False">>

\* C25: DecrementTimer sets timeLeft to max(timeLeft - 1, 0) and changes no
\* other field; timeLeft lies within 0 .. the full time in every reachable
\* state; timeLeft is the full time right after every StartQuiz, ResetQuiz,
\* ResetTimer, NextQuestion and PreviousQuestion.
C25_TimerBounded ==
    [][/\ state.timeLeft \in 0..FullTime
       /\ state'.timeLeft \in 0..FullTime
       /\ decrementTimer =>
              state' = Moved(state, state.currentQuestionIndex,
                             IF state.timeLeft - 1 > 0 THEN state.timeLeft - 1 ELSE 0)
       /\ (startQuiz \/ resetQuiz \/ resetTimer \/ nextQuestion \/ previousQuestion) =>
              state'.timeLeft = FullTime]_vars

\* An in-progress session moved to its second question, nothing answered, the
\* countdown of that question run down to 0.
C25_Witness ==
    /\ InProgress(state)
    /\ state.currentQuestionIndex = 1
    /\ state.timeLeft = 0
    /\ \A i \in 1..Len(state.userAnswers) : state.userAnswers[i] = NULL

\* C27: scoring is deferred. In every reachable state in which isCompleted is
\* false the score is 0; no operation other than FinishQuiz changes the score
\* to a value other than 0; the operations that clear isCompleted are
\* StartQuiz and ResetQuiz, and they set the score to 0.
C27_ScoringDeferred ==
    [][/\ ~state.isCompleted => state.score = 0
       /\ ~state'.isCompleted => state'.score = 0
       /\ (state'.score # state.score /\ state'.score # 0) => finishQuiz
       /\ (state.isCompleted /\ ~state'.isCompleted) => (startQuiz \/ resetQuiz)
       /\ (startQuiz \/ resetQuiz) => (~state'.isCompleted /\ state'.score = 0)]_vars

\* An in-progress session with every question answered correctly: its score
\* is still 0.
C27_Witness ==
    /\ InProgress(state)
    /\ Cardinality(CorrectPositions(state)) = BatchSize
    /\ state.score = 0

----------------------------------------------------------------------------
(* Properties of the ledger (SpecLedger) *)

\* C6: after any sequence of writes from an empty ledger, the persisted list
\* has at most 5 entries and is ordered by score, highest first.
C6_LedgerBoundedSorted ==
    storage.kind = "array" =>
        /\ Len(storage.value) <= TopScores
        /\ \A i \in 1..(Len(storage.value) - 1) :
              storage.value[i].score >= storage.value[i + 1].score

\* More writes than the ledger keeps, with different scores among those kept.
C6_Witness ==
    /\ storage.kind = "array"
    /\ now > TopScores
    /\ Len(storage.value) = TopScores
    /\ storage.value[1].score > storage.value[TopScores].score

\* C7: reading the ledger yields the empty list and raises no error, both
\* when nothing is persisted and when the persisted payload is corrupt.
C7_ReadYieldsEmptyList ==
    storage.kind \in {"missing", "corrupt"} =>
        /\ ~getHighScores(storage).threw
        /\ getHighScores(storage).value = <<>>
        /\ ~crashed

\* The session started with difficulty d on the questions qs, every question
\* answered with its correct answer, then finished.
PerfectSession(d, qs) ==
    FINISH_QUIZ(Answered(Loaded(d, qs), [i \in 1..Len(qs) |-> qs[i].answer], 0))

\* The entry a write made at the time date records for the session s.
EntryOf(s, date) ==
    [score |-> s.score, totalQuestions |-> Len(s.questions),
     difficulty |-> s.difficulty, date |-> date]

\* The list holds the entry.
Holds(list, entry) == \E i \in 1..Len(list) : list[i] = entry

\* C22: on every ledger the writes reach, a write for a completed session
\* builds one entry with the score of the session, the number of its questions
\* and the difficulty its StartQuiz was given, and that entry is in the
\* persisted ledger when the ledger held fewer than 5 entries; a session of
\* the full batch answered entirely correctly is completed with the full
\* score and its entry records that score, total and difficulty.
C22_WriteRecordsSession ==
    ~getHighScores(storage).threw =>
        LET before == getHighScores(storage).value
        IN  /\ \A s \in SessionSnapshots :
                  s.isCompleted =>
                      LET after == saveHighScore(s, storage, now).storage.value
                      IN  /\ saveHighScore(s, storage, now).wrote
                          /\ Len(after) = Min(Len(before) + 1, TopScores)
                          /\ \A i \in 1..Len(after) :
                                Holds(before, after[i]) \/ after[i] = EntryOf(s, now)
                          /\ Len(before) < TopScores => Holds(after, EntryOf(s, now))
            /\ \A d \in SelectedDifficulties, qs \in QuestionLists :
                  LET s == PerfectSession(d, qs)
                  IN  /\ s \in SessionSnapshots
                      /\ s.isCompleted
                      /\ s.score = BatchSize
                      /\ Len(before) < TopScores =>
                            Holds(saveHighScore(s, storage, now).storage.value,
                                  [score |-> BatchSize, totalQuestions |-> BatchSize,
                                   difficulty |-> d, date |-> now])

\* The last write was that of a session answered entirely correctly, made on
\* a ledger that held entries, between one and four: its entry is persisted.
C22_Witness ==
    /\ storage.kind = "array"
    /\ Len(storage.value) \in 2..TopScores
    /\ now >= 2
    /\ Holds(storage.value, [score |-> BatchSize, totalQuestions |-> BatchSize,
                            difficulty |-> "hard", date |-> now - 1])
    /\ \E i \in 1..Len(storage.value) : storage.value[i].score < BatchSize

\* The lowest score among the entries of a list that is not empty.
LowestScore(list) ==
    CHOOSE x \in {list[i].score : i \in 1..Len(list)} :
        \A i \in 1..Len(list) : x <= list[i].score

\* C29: the admission rule of the ledger. On every ledger the writes reach, a
\* write retains the new entry if and only if the ledger held fewer than 5
\* entries or the new score is strictly greater than the lowest score in it;
\* among equal scores the entries written earlier rank ahead of those written
\* later; a new entry that ties the lowest score of a full ledger is dropped,
\* the ledger staying as it was, and an entry is evicted only by a new entry
\* of a strictly greater score.
C29_LedgerAdmission ==
    ~getHighScores(storage).threw =>
        LET before == getHighScores(storage).value
        IN  \A s \in SessionSnapshots :
                s.isCompleted =>
                    LET after == saveHighScore(s, storage, now).storage.value
                        entry == EntryOf(s, now)
                    IN  /\ Holds(after, entry)
                            <=> (Len(before) < TopScores
                                 \/ entry.score > LowestScore(before))
                        /\ \A i, j \in 1..Len(after) :
                              (i < j /\ after[i].score = after[j].score) =>
                                  after[i].date < after[j].date
                        /\ (Len(before) = TopScores
                            /\ entry.score = LowestScore(before)) => after = before
                        /\ \A i \in 1..Len(before) :
                              ~Holds(after, before[i]) =>
                                  entry.score > before[i].score

\* A full ledger of the five earliest writes, all of score 0, after six
\* writes: the sixth tied the lowest score and was dropped.
C29_Witness ==
    /\ storage.kind = "array"
    /\ Len(storage.value) = TopScores
    /\ now = TopScores + 1
    /\ \A i \in 1..TopScores :
          storage.value[i].score = 0 /\ storage.value[i].date = i - 1

----------------------------------------------------------------------------
(* Properties of the pages (Spec) *)

\* The response of a superseded request arrives (resolved or rejected).
LateArrival == pending'.late < pending.late

\* C5: the late response of a superseded request leaves the questions, the
\* recorded answers, the position, the timer and the completion flag of the
\* newer session as they were.
C5_LateResponseIgnored ==
    [][LateArrival =>
          /\ state'.questions = state.questions
          /\ state'.userAnswers = state.userAnswers
          /\ state'.currentQuestionIndex = state.currentQuestionIndex
          /\ state'.timeLeft = state.timeLeft
          /\ state'.isCompleted = state.isCompleted]_vars

\* The responses fetchQuizQuestions resolves for: HTTP ok and response_code 0.
Successful(response) ==
    response.kind = "http" /\ response.ok /\ response.response_code = 0

C8_OneWritePerSession == saves <= 1

\* C9: saveHighScore called while the session is not completed leaves the
\* persisted ledger unchanged.
C9_NoWriteUnlessCompleted ==
    [][~state.isCompleted => storage' = storage /\ now' = now]_vars

\* The effect of Results has called saveHighScore for a loaded session that
\* is not completed, a ledger being persisted.
C9_Witness ==
    /\ route = "/results"
    /\ resultsRan
    /\ ~state.isCompleted
    /\ Len(state.questions) > 0
    /\ storage.kind = "array"

\* C10: the Timer calls onTimeUp once when its countdown is at 0, and not a
\* second time before the position changes or the quiz is left, the last
\* question included (finishing leaves timeLeft at 0).
C10_TimeUpOnce ==
    /\ timeUps <= 1
    /\ (timerDeps.mounted /\ timerDeps.timeLeft = 0) => timeUps = 1

\* The countdown of the last question has run out, the Timer has called
\* onTimeUp, the quiz is finished and the Timer is still rendered.
C10_Witness ==
    /\ route = "/quiz"
    /\ timerDeps.mounted
    /\ timerDeps.timeLeft = 0
    /\ isLastQuestion(state)
    /\ state.isCompleted
    /\ state.timeLeft = 0
    /\ timeUps = 1

\* The Timer calls onTimeUp in this step.
TimeUpSignalled == timeUps' = timeUps + 1

\* C11: once the quiz is finished or the user has left the question view, the
\* timer does nothing to the session: no tick decrements timeLeft and no
\* expiration callback advances the position or finishes the quiz again.
C11_TimerInertAfterLeaving ==
    [][(state.isCompleted \/ route # "/quiz") =>
          ~TimerTick /\ ~TimeUpSignalled]_vars

\* C12: when the timer expires, the quiz is finished exactly when the position
\* is the last question, and otherwise the position advances by exactly one,
\* never past questions.length - 1.
C12_TimeUpFinishesOnlyOnLast ==
    [][TimeUpSignalled =>
          IF state.currentQuestionIndex = Len(state.questions) - 1
          THEN /\ state'.isCompleted
               /\ state'.currentQuestionIndex = state.currentQuestionIndex
          ELSE /\ state'.isCompleted = state.isCompleted
               /\ state'.currentQuestionIndex = state.currentQuestionIndex + 1
               /\ state'.currentQuestionIndex <= Len(state.questions) - 1]_vars

\* The countdown of the first question has run out unanswered and the quiz,
\* not finished, shows the second question.
C12_Witness ==
    /\ route = "/quiz"
    /\ timeUps = 1
    /\ ~state.isCompleted
    /\ state.currentQuestionIndex = 1
    /\ state.userAnswers[1] = NULL

\* C18: after the user leaves the question view for the home screen (Exit
\* Quiz, logo) or leaves the results by Restart / Home, the session holds no
\* questions and no recorded answers.
C18_SessionDiscardedOnLeave ==
    [][((route = "/quiz" /\ NavigateHome) \/ HandleRestart) =>
          /\ state'.questions = <<>>
          /\ state'.userAnswers = <<>>]_vars

----------------------------------------------------------------------------
(* Properties of the question view (Spec) *)

\* C21: in every state of an in-progress quiz, the dot of question i is marked
\* as answered if and only if an answer is recorded in userAnswers[i]; a null
\* slot is shown as unanswered.
C21_DotsShowAnswered ==
    (TimerMounted(state, route) /\ ~state.isCompleted) =>
        \A index \in 0..(Len(state.userAnswers) - 1) :
            isAnswered(state.userAnswers, index)
                <=> state.userAnswers[index + 1] \notin {NULL, UNDEFINED}

\* C30: driven through the question view, an answer slot is null at completion
\* only if the countdown of its question ran out while it was the current
\* question, and a click on Next / Finish never leaves an unanswered question.
C30_NullOnlyAfterExpiry ==
    [][/\ (state'.isCompleted /\ Len(state'.questions) > 0) =>
              \A index \in 0..(Len(state'.userAnswers) - 1) :
                  state'.userAnswers[index + 1] = NULL => index \in expired'
       /\ HandleNext =>
              state.userAnswers[state.currentQuestionIndex + 1] \notin {NULL, UNDEFINED}]_vars

----------------------------------------------------------------------------
(* Properties of services/quizApi (SpecApi) *)

\* How many times x occurs in seq.
Count(seq, x) == Cardinality({i \in 1..Len(seq) : seq[i] = x})

\* seq and other hold the same elements, each the same number of times.
SameMultiset(seq, other) ==
    /\ Len(seq) = Len(other)
    /\ \A i \in 1..Len(seq) : Count(seq, seq[i]) = Count(other, seq[i])

\* The decoded option texts of a raw record, the correct answer first.
DecodedOptions(raw) ==
    <<decodeHtmlEntities(raw.correct_answer)>>
        \o [k \in 1..Len(raw.incorrect_answers) |->
               decodeHtmlEntities(raw.incorrect_answers[k])]

Distinct(seq) == \A i, j \in 1..Len(seq) : seq[i] = seq[j] => i = j

FetchResolved ==
    call.op = "fetchQuizQuestions" /\ returned.done /\ ~returned.threw

\* The option texts of a raw record as sent, the correct answer first.
RawOptions(raw) == <<raw.correct_answer>> \o raw.incorrect_answers

\* C19 as stated: every question of a successful load has as options exactly
\* the correct answer and the incorrect answers of its raw record (the same
\* multiset), its answer is among its options, exactly once when the raw
\* option texts are distinct, and there are as many questions as raw records.
C19_OnceWhenRawDistinct ==
    FetchResolved =>
        /\ Len(returned.value) = Len(call.response.results)
        /\ \A i \in 1..Len(returned.value) :
              LET q == returned.value[i]
                  texts == DecodedOptions(call.response.results[i])
              IN  /\ SameMultiset(q.options, texts)
                  /\ Count(q.options, q.answer) >= 1
                  /\ Distinct(RawOptions(call.response.results[i])) =>
                         Count(q.options, q.answer) = 1

\* C19, amended: as above, the answer being among the options exactly once
\* when the option texts are distinct once decoded.
C19_OptionsAreTheRawAnswers ==
    FetchResolved =>
        /\ Len(returned.value) = Len(call.response.results)
        /\ \A i \in 1..Len(returned.value) :
              LET q == returned.value[i]
                  texts == DecodedOptions(call.response.results[i])
              IN  /\ SameMultiset(q.options, texts)
                  /\ q.answer = texts[1]
                  /\ Count(q.options, q.answer) >= 1
                  /\ Distinct(texts) => Count(q.options, q.answer) = 1

\* A load of MaxRecords records, one of them with four options whose shuffle
\* moved the correct answer away from the first place, one with option texts
\* that coincide.
C19_Witness ==
    /\ FetchResolved
    /\ Len(returned.value) = MaxRecords
    /\ \E i \in 1..Len(returned.value) :
          /\ Len(returned.value[i].options) = 4
          /\ returned.value[i].options[1] # returned.value[i].answer
    /\ \E i \in 1..Len(returned.value) :
          Count(returned.value[i].options, returned.value[i].answer) = 2

\* C20: the result of shuffleArray has the length and the multiset of elements
\* of its input, for every input and every sequence of random choices, and
\* the input array is left as it was.
C20_ShuffleIsPermutation ==
    (call.op = "shuffleArray" /\ returned.done) =>
        /\ SameMultiset(returned.value, call.array)
        /\ returned.array = call.array

\* An array with a repeated element came back in another order.
C20_Witness ==
    /\ call.op = "shuffleArray"
    /\ returned.done
    /\ Len(call.array) = MaxLen
    /\ ~Distinct(call.array)
    /\ returned.value # call.array

RECURSIVE Factorial(_)
Factorial(n) == IF n <= 1 THEN 1 ELSE n * Factorial(n - 1)

\* The orderings of an array of distinct elements.
Orderings(array) ==
    {p \in [1..Len(array) -> {array[i] : i \in 1..Len(array)}] : Distinct(p)}

\* C26: the shuffle is an unbiased Fisher-Yates. For an input of n distinct
\* elements the index drawn at step i ranges over exactly 0..i, there are n!
\* sequences of draws, and they produce the n! orderings of the input
\* one-to-one: every ordering is a result, none of more sequences than another.
C26_ShuffleUnbiased ==
    (call.op = "shuffleArray" /\ Distinct(call.array)) =>
        LET n == Len(call.array)
            choices == ValidChoices(n)
            result(js) == shuffleArray(call.array, js)
        IN  /\ choices = {[i \in 1..(n - 1) |-> DrawnIndex(r[i], i)] :
                              r \in [1..(n - 1) -> RandomValues]}
            /\ \A i \in 1..(n - 1) : {js[i] : js \in choices} = 0..i
            /\ call.draws \in choices
            /\ Cardinality(choices) = Factorial(n)
            /\ {result(js) : js \in choices} = Orderings(call.array)
            /\ Cardinality(Orderings(call.array)) = Factorial(n)
            /\ \A js, ks \in choices : result(js) = result(ks) => js = ks
            /\ returned.done => returned.value = result(call.draws)

\* An array of MaxLen distinct elements came back in the reverse order.
C26_Witness ==
    /\ call.op = "shuffleArray"
    /\ returned.done
    /\ Len(call.array) = MaxLen
    /\ Distinct(call.array)
    /\ \A i \in 1..MaxLen : returned.value[i] = call.array[MaxLen + 1 - i]

----------------------------------------------------------------------------
(* Properties of the unattended quiz (SpecUnattended) *)

\* The session is completed and its result was written to the ledger.
ResultWritten == state.isCompleted /\ saves >= 1

\* C28: an in-progress quiz terminates by itself. From any in-progress state,
\* the user taking no further action and the timer ticking, the session
\* eventually becomes completed and its result is written to the ledger.
C28_QuizTerminatesByItself ==
    (unattended /\ InProgress(state) /\ now < MaxPageWrites) ~> ResultWritten

====
